---- MODULE Spec2Model ----
(***************************************************************************)
(* Model of store/sqlstore/remote_cluster_store.go: the RemoteClusters     *)
(* table behind sqlRemoteClusterStore, with its write primary (GetMaster)  *)
(* and its read replica (GetReplica).                                      *)
(*                                                                         *)
(* Strings that the code inspects character by character (Topics, the      *)
(* topic argument, the LIKE pattern) are sequences of one-character        *)
(* strings; all other strings are TLA+ strings.  A table is the set of its *)
(* rows.  Time is counted in units of model.RemoteOfflineAfterMillis.      *)
(***************************************************************************)
EXTENDS Integers, Sequences, FiniteSets, TLC

\* ------------------------------------------------------------------ bounds
\* The clock is capped: Tick is disabled once now = MaxTime.
MaxTime == 3
\* At most MaxWrites write calls (Save, Delete, UpdateTopics, SetLastPingAt)
\* are started in one behaviour.
MaxWrites == 3
\* SharedChannelRemotes holds at most MaxShared associations.
MaxShared == 1

\* ------------------------------------------------------------------ domains
Ids == {"id1", "id2"}
Names == {"east", "west"}
Channels == {"ch1", "ch2"}
Procs == {1, 2}

\* Topics values: "*", "a b" and " a b ".
Wildcard == <<"*">>
TopicsAB == <<"a", " ", "b">>
TopicsPadded == <<" ", "a", " ", "b", " ">>
\* Topics values callers pass to Save and UpdateTopics.
TopicsValues == {Wildcard, TopicsAB}
\* A Topics value one character longer than the Topics column.
RECURSIVE Repeat(_, _)
Repeat(c, n) ==
  IF n = 0 THEN <<>>
  ELSE IF n % 2 = 1 THEN Append(Repeat(c, n - 1), c)
  ELSE LET h == Repeat(c, n \div 2) IN h \o h
TopicsTooLong == Repeat("a", 513)
\* Topics values of the stored rows the list queries are run on.
StoredTopics == {Wildcard, TopicsAB, TopicsPadded}

\* topic arguments passed to GetByTopic:
\* "", " ", "*", " * ", "a", "b", "g", " b ".
TopicArgs ==
  { <<>>, <<" ">>, <<"*">>, <<" ", "*", " ">>,
    <<"a">>, <<"b">>, <<"g">>, <<" ", "b", " ">> }

\* model.RemoteOfflineAfterMillis, in clock units.
RemoteOfflineAfterMillis == 1

VARIABLES
  master,    \* rows of RemoteClusters on the write primary (s.GetMaster())
  replica,   \* rows of RemoteClusters on the read replica (s.GetReplica())
  sharedChannelRemotes, \* rows <<ChannelId, RemoteClusterId>> of SharedChannelRemotes
  now,       \* model.GetMillis()
  ut,        \* per caller: the UpdateTopics call between its Get and its Update
  ret,       \* what the call completed by the last step returned
  usedIds,   \* history: every Id a row was ever inserted with
  last,      \* history: per Id, the last write call that changed its row
  writes     \* number of write calls started

vars == <<master, replica, sharedChannelRemotes, now, ut, ret, usedIds, last, writes>>

\* ------------------------------------------------------------------ rows
\* model.RemoteCluster
Row(id, name, host, token, topics, ping, createAt, updateAt) ==
  [ Id |-> id, ClusterName |-> name, Hostname |-> host, Token |-> token,
    Topics |-> topics, LastPingAt |-> ping, CreateAt |-> createAt,
    UpdateAt |-> updateAt ]

\* The records callers pass to Save: Id empty or chosen by the caller,
\* ClusterName possibly missing, Topics possibly too long, never pinged, no
\* timestamps yet.
SaveInputs ==
  { Row(id, name, "host", "token", tp, 0, 0, 0) :
      id \in {"id1", ""}, name \in {"east", ""},
      tp \in TopicsValues \cup {TopicsTooLong} }

\* ------------------------------------------------------------------ errors
ErrNil == [wrap |-> "", cause |-> ""]
Err(wrap, cause) == [wrap |-> wrap, cause |-> cause]
ErrNoRows == "sql: no rows in result set"
ErrBackend == "backend failure"
ErrDuplicateKey == "duplicate primary key"

\* ------------------------------------------------------------------ strings
RECURSIVE TrimLeft(_)
TrimLeft(s) ==
  IF s # <<>> /\ Head(s) = " " THEN TrimLeft(Tail(s)) ELSE s

RECURSIVE TrimRight(_)
TrimRight(s) ==
  IF s # <<>> /\ s[Len(s)] = " " THEN TrimRight(SubSeq(s, 1, Len(s) - 1)) ELSE s

\* strings.TrimSpace
TrimSpace(s) == TrimRight(TrimLeft(s))

\* SQL LIKE: % matches any run of characters, _ any one character.
RECURSIVE Like(_, _)
Like(s, p) ==
  IF p = <<>> THEN s = <<>>
  ELSE IF Head(p) = "%"
       THEN Like(s, Tail(p)) \/ (s # <<>> /\ Like(Tail(s), p))
       ELSE /\ s # <<>>
            /\ (Head(p) = "_" \/ Head(p) = Head(s))
            /\ Like(Tail(s), Tail(p))

\* ------------------------------------------------------------------ model.RemoteCluster
\* rc.PreSave(): assigns Id if empty and sets the creation timestamp.
PreSave(r, newId, t) ==
  [r EXCEPT !.Id = IF r.Id = "" THEN newId ELSE r.Id, !.CreateAt = t]

\* rc.IsValid(): the required fields are present, the lengths are within the
\* column sizes.
IsValid(r) ==
  /\ r.Id # ""
  /\ r.ClusterName # ""
  /\ r.Hostname # ""
  /\ Len(r.Topics) <= 512

\* rc.PreUpdate(): stamps the update timestamp.
PreUpdate(r, t) == [r EXCEPT !.UpdateAt = t]

\* ------------------------------------------------------------------ statements
\* Faulty variant of SelectOne: the WHERE clause is missing.
SelectOneNoWhere(db, id) == db

\* SELECT * FROM RemoteClusters WHERE Id = ?
SelectOne(db, id) == {r \in db : r.Id = id}

\* INSERT INTO RemoteClusters: Id is the primary key.
InsertConflicts(db, rc) == SelectOne(db, rc.Id) # {}
\* Faulty variant of Insert: the Hostname column is not written.
InsertNoHostname(db, rc) == db \cup {[rc EXCEPT !.Hostname = ""]}

Insert(db, rc) == db \cup {rc}

\* DELETE FROM RemoteClusters WHERE Id = ?
DeleteRows(db, id) == {r \in db : r.Id # id}
\* result.RowsAffected()
RowsAffected(db, id) == Cardinality(SelectOne(db, id))
\* Faulty variant of DeleteResult: count >= 0.
DeleteResultAlways(count) == count >= 0

\* count > 0
DeleteResult(count) == count > 0

\* Faulty variant of Update: the Topics column keeps its stored value.
UpdateKeepsTopics(db, rc) ==
  {IF r.Id = rc.Id THEN [rc EXCEPT !.Topics = r.Topics] ELSE r : r \in db}

\* Faulty variant of Update: the new Topics are appended to the stored ones.
UpdateMergesTopics(db, rc) ==
  {IF r.Id = rc.Id THEN [rc EXCEPT !.Topics = r.Topics \o <<" ">> \o rc.Topics] ELSE r :
     r \in db}

\* gorp Update(rc): UPDATE RemoteClusters SET <every column> WHERE Id = rc.Id
Update(db, rc) == {IF r.Id = rc.Id THEN rc ELSE r : r \in db}

\* Faulty variant of UpdateLastPingAt: the WHERE clause is missing.
UpdateLastPingAtNoWhere(db, id, t) ==
  {[r EXCEPT !.LastPingAt = t] : r \in db}

\* Faulty variant of UpdateLastPingAt: only a row never pinged is written.
UpdateLastPingAtFirstOnly(db, id, t) ==
  {IF r.Id = id /\ r.LastPingAt = 0 THEN [r EXCEPT !.LastPingAt = t] ELSE r :
     r \in db}

\* UPDATE RemoteClusters SET LastPingAt = ? WHERE Id = ?
UpdateLastPingAt(db, id, t) ==
  {IF r.Id = id THEN [r EXCEPT !.LastPingAt = t] ELSE r : r \in db}

\* Faulty variant of Online: sq.GtOrEq instead of sq.Gt.
OnlineGtOrEq(r, t) == r.LastPingAt >= t - RemoteOfflineAfterMillis

\* sq.Gt{"LastPingAt": model.GetMillis() - model.RemoteOfflineAfterMillis}
Online(r, t) == r.LastPingAt > t - RemoteOfflineAfterMillis

\* Faulty variant of NotInChannel: IN instead of NOT IN.
InChannel(r, scr, channelId) ==
  r.Id \in {x[2] : x \in {y \in scr : y[1] = channelId}}

\* rc.Id NOT IN (SELECT scr.RemoteClusterId FROM SharedChannelRemotes scr
\*               WHERE scr.ChannelId = ?)
NotInChannel(r, scr, channelId) ==
  r.Id \notin {x[2] : x \in {y \in scr : y[1] = channelId}}

\* fmt.Sprintf("%% %s %%", trimmed)
QueryTopic(trimmed) == <<"%", " ">> \o trimmed \o <<" ", "%">>

\* Faulty variant of TopicWhere: the wildcard alternative is missing.
TopicWhereLikeOnly(r, queryTopic) == Like(r.Topics, queryTopic)

\* sq.Or{sq.Like{"rc.Topics": queryTopic}, sq.Eq{"rc.Topics": "*"}}
TopicWhere(r, queryTopic) == Like(r.Topics, queryTopic) \/ r.Topics = <<"*">>

\* Faulty variant of InvalidTopic: the wildcard is not rejected.
InvalidTopicEmptyOnly(trimmed) == trimmed = <<>>

\* trimmed == "" || trimmed == "*"
InvalidTopic(trimmed) == trimmed = <<>> \/ trimmed = <<"*">>

\* ------------------------------------------------------------------ result lists
\* Every order in which the backend may return the rows of S.
Orders(S) ==
  {q \in [1..Cardinality(S) -> S] : \A i, j \in DOMAIN q : i # j => q[i] # q[j]}

\* Collation order of the cluster names.
NameRank(n) == CASE n = "east" -> 1 [] n = "west" -> 2 [] OTHER -> 0

\* Faulty variant of OrderByClusterName: the ORDER BY clause is missing.
OrderByNothing(S) == Orders(S)

\* ORDER BY rc.ClusterName ASC
OrderByClusterName(S) ==
  {q \in Orders(S) :
     \A i, j \in DOMAIN q :
        i < j => NameRank(q[i].ClusterName) <= NameRank(q[j].ClusterName)}

\* ------------------------------------------------------------------ returns
NoRet ==
  [ op |-> "none", id |-> "", topic |-> <<>>, channel |-> "", incl |-> FALSE,
    rows |-> <<>>, ok |-> FALSE, err |-> ErrNil ]

Idle == [pc |-> "idle", id |-> "", topics |-> <<>>, rc |-> {}]
NoWrite == [op |-> "none", arg |-> {}]

Init ==
  /\ master = {}
  /\ replica = {}
  /\ sharedChannelRemotes = {}
  /\ now = RemoteOfflineAfterMillis + 1
  /\ ut = [p \in Procs |-> Idle]
  /\ ret = NoRet
  /\ usedIds = {}
  /\ last = [i \in Ids |-> NoWrite]
  /\ writes = 0

\* ------------------------------------------------------------------ operations
\* Faulty variant of Save: the error of IsValid is not returned.
SaveIgnoresIsValid(r, newId, fail) ==
  LET rc == PreSave(r, newId, now)
      R == [NoRet EXCEPT !.op = "Save", !.id = rc.Id]
  IN /\ writes < MaxWrites
     /\ writes' = writes + 1
     /\ UNCHANGED <<replica, sharedChannelRemotes, now, ut>>
     /\ IF fail
        THEN /\ ret' = [R EXCEPT !.err = Err("failed to save RemoteCluster", ErrBackend)]
             /\ UNCHANGED <<master, usedIds, last>>
        ELSE IF InsertConflicts(master, rc)
        THEN /\ ret' = [R EXCEPT !.err = Err("failed to save RemoteCluster", ErrDuplicateKey)]
             /\ UNCHANGED <<master, usedIds, last>>
        ELSE /\ master' = Insert(master, rc)
             /\ usedIds' = usedIds \cup {rc.Id}
             /\ last' = [last EXCEPT ![rc.Id] = [op |-> "Save", arg |-> {r}]]
             /\ ret' = [R EXCEPT !.rows = <<rc>>]

\* Save(remoteCluster)
Save(r, newId, fail) ==
  LET rc == PreSave(r, newId, now)
      R == [NoRet EXCEPT !.op = "Save", !.id = rc.Id]
  IN /\ writes < MaxWrites
     /\ writes' = writes + 1
     /\ UNCHANGED <<replica, sharedChannelRemotes, now, ut>>
     /\ IF ~IsValid(rc)
        THEN /\ ret' = [R EXCEPT !.err = Err("", "RemoteCluster.IsValid")]
             /\ UNCHANGED <<master, usedIds, last>>
        ELSE IF fail
        THEN /\ ret' = [R EXCEPT !.err = Err("failed to save RemoteCluster", ErrBackend)]
             /\ UNCHANGED <<master, usedIds, last>>
        ELSE IF InsertConflicts(master, rc)
        THEN /\ ret' = [R EXCEPT !.err = Err("failed to save RemoteCluster", ErrDuplicateKey)]
             /\ UNCHANGED <<master, usedIds, last>>
        ELSE /\ master' = Insert(master, rc)
             /\ usedIds' = usedIds \cup {rc.Id}
             /\ last' = [last EXCEPT ![rc.Id] = [op |-> "Save", arg |-> {r}]]
             /\ ret' = [R EXCEPT !.rows = <<rc>>]

\* Delete(remoteClusterId)
Delete(id, fail) ==
  LET R == [NoRet EXCEPT !.op = "Delete", !.id = id]
      count == RowsAffected(master, id)
  IN /\ writes < MaxWrites
     /\ writes' = writes + 1
     /\ UNCHANGED <<replica, sharedChannelRemotes, now, ut, usedIds>>
     /\ IF fail
        THEN /\ ret' = [R EXCEPT !.err = Err("failed to delete RemoteCluster", ErrBackend)]
             /\ UNCHANGED <<master, last>>
        ELSE /\ master' = DeleteRows(master, id)
             /\ last' = IF count > 0
                        THEN [last EXCEPT ![id] = [op |-> "Delete", arg |-> {}]]
                        ELSE last
             /\ ret' = [R EXCEPT !.ok = DeleteResult(count)]

\* Get(remoteClusterId)
Get(id, fail) ==
  LET R == [NoRet EXCEPT !.op = "Get", !.id = id]
      found == SelectOne(replica, id)
  IN /\ UNCHANGED <<master, replica, sharedChannelRemotes, now, ut, usedIds, last, writes>>
     /\ IF fail
        THEN ret' = [R EXCEPT !.err = Err("failed to find RemoteCluster", ErrBackend)]
        ELSE IF found = {}
        THEN ret' = [R EXCEPT !.err = Err("failed to find RemoteCluster", ErrNoRows)]
        ELSE \E rc \in found : ret' = [R EXCEPT !.rows = <<rc>>]

\* GetAll(includeOffline)
GetAllRows(db, includeOffline, t) ==
  {r \in db : includeOffline \/ Online(r, t)}

GetAll(includeOffline, fail) ==
  LET R == [NoRet EXCEPT !.op = "GetAll", !.incl = includeOffline]
  IN /\ UNCHANGED <<master, replica, sharedChannelRemotes, now, ut, usedIds, last, writes>>
     /\ IF fail
        THEN ret' = [R EXCEPT !.err = Err("failed to find RemoteCluster", ErrBackend)]
        ELSE \E list \in Orders(GetAllRows(replica, includeOffline, now)) :
                ret' = [R EXCEPT !.rows = list]

\* GetAllNotInChannel(channelId, inclOffline)
GetAllNotInChannelRows(db, scr, channelId, inclOffline, t) ==
  {r \in db : NotInChannel(r, scr, channelId) /\ (inclOffline \/ Online(r, t))}

GetAllNotInChannel(channelId, inclOffline, fail) ==
  LET R == [NoRet EXCEPT !.op = "GetAllNotInChannel", !.channel = channelId,
                         !.incl = inclOffline]
  IN /\ UNCHANGED <<master, replica, sharedChannelRemotes, now, ut, usedIds, last, writes>>
     /\ IF fail
        THEN ret' = [R EXCEPT !.err = Err("failed to find RemoteCluster", ErrBackend)]
        ELSE \E list \in OrderByClusterName(
                   GetAllNotInChannelRows(replica, sharedChannelRemotes,
                                          channelId, inclOffline, now)) :
                ret' = [R EXCEPT !.rows = list]

\* GetByTopic(topic)
GetByTopicRows(db, topic) ==
  {r \in db : TopicWhere(r, QueryTopic(TrimSpace(topic)))}

GetByTopic(topic, fail) ==
  LET R == [NoRet EXCEPT !.op = "GetByTopic", !.topic = topic]
  IN /\ UNCHANGED <<master, replica, sharedChannelRemotes, now, ut, usedIds, last, writes>>
     /\ IF InvalidTopic(TrimSpace(topic))
        THEN ret' = [R EXCEPT !.err = Err("", "invalid topic")]
        ELSE IF fail
        THEN ret' = [R EXCEPT !.err = Err("failed to find RemoteCluster", ErrBackend)]
        ELSE \E list \in Orders(GetByTopicRows(replica, topic)) :
                ret' = [R EXCEPT !.rows = list]

\* UpdateTopics(remoteClusterid, topics), first half: rc, err := s.Get(id)
\* and the early return on its error.
UpdateTopicsGet(p, id, topics, fail) ==
  LET R == [NoRet EXCEPT !.op = "UpdateTopics", !.id = id, !.topic = topics]
      found == SelectOne(replica, id)
  IN /\ ut[p].pc = "idle"
     /\ writes < MaxWrites
     /\ writes' = writes + 1
     /\ UNCHANGED <<master, replica, sharedChannelRemotes, now, usedIds, last>>
     /\ IF fail
        THEN /\ ret' = [R EXCEPT !.err = Err("failed to find RemoteCluster", ErrBackend)]
             /\ UNCHANGED ut
        ELSE IF found = {}
        THEN /\ ret' = [R EXCEPT !.err = Err("failed to find RemoteCluster", ErrNoRows)]
             /\ UNCHANGED ut
        ELSE /\ ret' = NoRet
             /\ \E rc \in found :
                  ut' = [ut EXCEPT ![p] = [pc |-> "update", id |-> id,
                                           topics |-> topics, rc |-> {rc}]]

\* UpdateTopics, second half: rc.Topics = topics; rc.PreUpdate();
\* s.GetMaster().Update(rc); return rc.
UpdateTopicsUpdate(p, fail) ==
  /\ ut[p].pc = "update"
  /\ LET R == [NoRet EXCEPT !.op = "UpdateTopics", !.id = ut[p].id,
                            !.topic = ut[p].topics]
     IN \E old \in ut[p].rc :
          LET rc == PreUpdate([old EXCEPT !.Topics = ut[p].topics], now)
          IN /\ ut' = [ut EXCEPT ![p] = Idle]
             /\ UNCHANGED <<replica, sharedChannelRemotes, now, usedIds, writes>>
             /\ IF fail
                THEN /\ ret' = [R EXCEPT !.err = Err("", ErrBackend)]
                     /\ UNCHANGED <<master, last>>
                ELSE /\ master' = Update(master, rc)
                     /\ last' = IF SelectOne(master, rc.Id) # {}
                                THEN [last EXCEPT ![rc.Id] =
                                        [op |-> "UpdateTopics", arg |-> {rc}]]
                                ELSE last
                     /\ ret' = [R EXCEPT !.rows = <<rc>>]

\* SetLastPingAt(remoteClusterId)
SetLastPingAt(id, fail) ==
  LET R == [NoRet EXCEPT !.op = "SetLastPingAt", !.id = id]
  IN /\ writes < MaxWrites
     /\ writes' = writes + 1
     /\ UNCHANGED <<replica, sharedChannelRemotes, now, ut, usedIds>>
     /\ IF fail
        THEN /\ ret' = [R EXCEPT !.err = Err("failed to update RemoteCluster", ErrBackend)]
             /\ UNCHANGED <<master, last>>
        ELSE /\ master' = UpdateLastPingAt(master, id, now)
             /\ last' = IF SelectOne(master, id) # {}
                        THEN [last EXCEPT ![id] = [op |-> "SetLastPingAt", arg |-> {}]]
                        ELSE last
             /\ ret' = R

\* ------------------------------------------------------------------ environment
\* The read replica catches up with the write primary.
Replicate ==
  /\ replica # master
  /\ replica' = master
  /\ ret' = NoRet
  /\ UNCHANGED <<master, sharedChannelRemotes, now, ut, usedIds, last, writes>>

\* The wall clock advances.
Tick ==
  /\ now < MaxTime
  /\ now' = now + 1
  /\ ret' = NoRet
  /\ UNCHANGED <<master, replica, sharedChannelRemotes, ut, usedIds, last, writes>>

\* The owner of SharedChannelRemotes adds or removes an association.
Associate(channelId, id) ==
  /\ \/ <<channelId, id>> \in sharedChannelRemotes
     \/ Cardinality(sharedChannelRemotes) < MaxShared
  /\ sharedChannelRemotes' =
       IF <<channelId, id>> \in sharedChannelRemotes
       THEN sharedChannelRemotes \ {<<channelId, id>>}
       ELSE sharedChannelRemotes \cup {<<channelId, id>>}
  /\ ret' = NoRet
  /\ UNCHANGED <<master, replica, now, ut, usedIds, last, writes>>

\* Save, Delete, Get, UpdateTopics and SetLastPingAt from the empty table,
\* by two concurrent callers, with a lagging replica.
Next ==
  \/ \E r \in SaveInputs, fail \in BOOLEAN :
       \E newId \in (IF r.Id = "" THEN Ids \ usedIds ELSE {""}) : Save(r, newId, fail)
  \/ \E id \in Ids, fail \in BOOLEAN : Delete(id, fail)
  \/ \E id \in Ids, fail \in BOOLEAN : Get(id, fail)
  \/ \E p \in Procs, id \in Ids, topics \in TopicsValues, fail \in BOOLEAN :
       UpdateTopicsGet(p, id, topics, fail)
  \/ \E p \in Procs, fail \in BOOLEAN : UpdateTopicsUpdate(p, fail)
  \/ \E id \in Ids, fail \in BOOLEAN : SetLastPingAt(id, fail)
  \/ Replicate
  \/ Tick

Spec == Init /\ [][Next]_vars

\* ------------------------------------------------------------------ list queries
\* The stored rows the list queries are run on: any valid row that a Save,
\* and possibly a SetLastPingAt no later than the first clock reading, can
\* have left.
StoredCells ==
  Names \X StoredTopics \X (0..(RemoteOfflineAfterMillis + 1))

StoredRow(id, c) == Row(id, c[1], "host", "token", c[2], c[3], 1, 0)

\* Tables of stored rows: Id is the primary key.
StoredTables ==
  { {StoredRow(i, f[i]) : i \in D} : D \in SUBSET Ids, f \in [Ids -> StoredCells] }

QueryInit ==
  /\ master \in StoredTables
  /\ replica = master
  /\ sharedChannelRemotes = {}
  /\ now = RemoteOfflineAfterMillis + 1
  /\ ut = [p \in Procs |-> Idle]
  /\ ret = NoRet
  /\ usedIds = {r.Id : r \in master}
  /\ last = [i \in Ids |-> NoWrite]
  /\ writes = 0

\* GetAll, GetAllNotInChannel and GetByTopic on a stored table, while the
\* clock advances and associations change.
QueryNext ==
  \/ \E incl \in BOOLEAN, fail \in BOOLEAN : GetAll(incl, fail)
  \/ \E ch \in Channels, incl \in BOOLEAN, fail \in BOOLEAN :
       GetAllNotInChannel(ch, incl, fail)
  \/ \E topic \in TopicArgs, fail \in BOOLEAN : GetByTopic(topic, fail)
  \/ Tick
  \/ \E ch \in Channels, id \in Ids : Associate(ch, id)

QuerySpec == QueryInit /\ [][QueryNext]_vars

\* ------------------------------------------------------------------ claims
\* The rows of a returned list.
Range(q) == {q[i] : i \in DOMAIN q}

\* rc equals the record r passed to Save in every field that Save does not
\* generate (Id when r.Id is empty, the timestamps CreateAt and UpdateAt).
EqualButGenerated(rc, r) ==
  /\ rc.ClusterName = r.ClusterName
  /\ rc.Hostname = r.Hostname
  /\ rc.Token = r.Token
  /\ rc.Topics = r.Topics
  /\ rc.LastPingAt = r.LastPingAt
  /\ (r.Id # "" => rc.Id = r.Id)

\* The step is a Get that the backend answered, on an Id whose row was last
\* written by a call named op.
GetAfter(op) ==
  /\ ret'.op = "Get"
  /\ ret'.err.cause # ErrBackend
  /\ last[ret'.id].op = op

\* The rows of table db whose Id is id, and whether there is one.
RowsOf(db, id) == {r \in db : r.Id = id}
Stored(db, id) == \E r \in db : r.Id = id

\* The replica holds for id what the primary holds.
ReplicaCurrent(id) == RowsOf(replica, id) = RowsOf(master, id)

\* C1, as stated: a Get on the Id returned by Save(r), with no other write
\* to that Id in between, returns a record equal to r except for the
\* generated fields.
C1_GetAfterSaveReturnsRecord ==
  [][GetAfter("Save") =>
       /\ ret'.err = ErrNil
       /\ \A r \in last[ret'.id].arg : EqualButGenerated(ret'.rows[1], r)]_vars

\* C1, amended: a Get on the Id returned by Save(r), with no other write to
\* that Id in between, returns a record equal to r except for the generated
\* fields once the read replica holds the saved row; until then it fails
\* with no rows or returns what the replica still holds.
C1_GetAfterSaveOnCurrentReplica ==
  [][GetAfter("Save") =>
       /\ ReplicaCurrent(ret'.id) =>
            /\ ret'.err = ErrNil
            /\ Len(ret'.rows) = 1
            /\ ret'.rows[1].Id = ret'.id
            /\ \A r \in last[ret'.id].arg : EqualButGenerated(ret'.rows[1], r)
       /\ ret'.err # ErrNil =>
            /\ ret'.err.cause = ErrNoRows
            /\ ~Stored(replica, ret'.id)]_vars

\* A Get returned the record of a Save that generated the Id.
C1_Witness ==
  /\ ret.op = "Get"
  /\ ret.err = ErrNil
  /\ last[ret.id].op = "Save"
  /\ ReplicaCurrent(ret.id)
  /\ \E r \in last[ret.id].arg : r.Id = "" /\ EqualButGenerated(ret.rows[1], r)

\* C2, as stated: the read inside UpdateTopics observes every completed
\* write to the Id: it finds the row the write primary holds, and fails with
\* no rows only when the primary holds none.
C2_UpdateTopicsReadsPrimary ==
  [][/\ \A p \in Procs :
          (ut[p].pc = "idle" /\ ut'[p].pc = "update") =>
             ut'[p].rc = RowsOf(master, ut'[p].id)
     /\ (ret'.op = "UpdateTopics" /\ ret'.err.cause = ErrNoRows) =>
           ~Stored(master, ret'.id)]_vars

\* strings.Split(s, " ")
RECURSIVE Split(_)
Split(s) ==
  IF s = <<>> THEN << <<>> >>
  ELSE IF Head(s) = " " THEN << <<>> >> \o Split(Tail(s))
  ELSE LET rest == Split(Tail(s))
       IN  << <<Head(s)>> \o Head(rest) >> \o Tail(rest)

\* The tokens of a Topics value, and whether the value is a space-delimited
\* list of topic names: no empty token, not the wildcard.
Tokens(s) == Range(Split(s))
IsTopicList(s) == s # <<"*">> /\ \A tok \in Tokens(s) : tok # <<>>

\* C3, as stated: GetByTopic(t) returns a row whose Topics is a
\* space-delimited list of topic names if and only if t is one of the
\* tokens of the list, the first and the last included.
C3_GetByTopicMatchesTokens ==
  (ret.op = "GetByTopic" /\ ret.err = ErrNil) =>
     \A r \in replica :
        IsTopicList(r.Topics) =>
           (r \in Range(ret.rows) <=> TrimSpace(ret.topic) \in Tokens(r.Topics))

C5_DeleteTrueExactlyOnce ==
  [][\A id \in Ids :
       Delete(id, FALSE) =>
          /\ ret'.err = ErrNil
          /\ ret'.ok = Stored(master, id)
          /\ ret'.ok = (last[id].op \notin {"none", "Delete"})
          /\ master' = {r \in master : r.Id # id}
          /\ ~Stored(master', id)]_vars

\* A second Delete of a saved and deleted record returned false.
C5_Witness ==
  /\ ret.op = "Delete"
  /\ ret.err = ErrNil
  /\ ~ret.ok
  /\ last[ret.id].op = "Delete"

\* C6: GetAll(false) at time now returns exactly the rows GetAll(true)
\* returns whose LastPingAt > now - RemoteOfflineAfterMillis, none of them
\* never pinged; GetAll(true) returns every row.
C6_GetAllOnlineOnly ==
  (ret.op = "GetAll" /\ ret.err = ErrNil) =>
     IF ret.incl
     THEN /\ Range(ret.rows) = replica
          /\ \A r \in replica : r.LastPingAt > now - RemoteOfflineAfterMillis =>
                r \in Range(ret.rows)
     ELSE /\ Range(ret.rows) =
               {r \in GetAllRows(replica, TRUE, now) :
                  r.LastPingAt > now - RemoteOfflineAfterMillis}
          /\ \A r \in Range(ret.rows) : r.LastPingAt # 0
          /\ Range(ret.rows) \subseteq replica

\* GetAll(false) returned a row and left out a row whose LastPingAt is
\* exactly now - RemoteOfflineAfterMillis.
C6_Witness ==
  /\ ret.op = "GetAll"
  /\ ret.err = ErrNil
  /\ ~ret.incl
  /\ ret.rows # <<>>
  /\ \E r \in replica :
       r.LastPingAt = now - RemoteOfflineAfterMillis /\ r \notin Range(ret.rows)

\* C7: GetAllNotInChannel(channelId, inclOffline) returns no row whose Id
\* is associated with channelId in SharedChannelRemotes.
C7_NotInChannelExcluded ==
  (ret.op = "GetAllNotInChannel" /\ ret.err = ErrNil) =>
     \A r \in Range(ret.rows) : <<ret.channel, r.Id>> \notin sharedChannelRemotes

\* GetAllNotInChannel returned a row and left out an associated one.
C7_Witness ==
  /\ ret.op = "GetAllNotInChannel"
  /\ ret.err = ErrNil
  /\ ret.rows # <<>>
  /\ \E r \in replica : <<ret.channel, r.Id>> \in sharedChannelRemotes

\* C8: GetByTopic(t), for t whose trimmed value is neither empty nor "*",
\* returns every row whose Topics is "*" (unless the backend fails).
C8_WildcardRowsReturned ==
  ( /\ ret.op = "GetByTopic"
    /\ TrimSpace(ret.topic) \notin {<<>>, <<"*">>}
    /\ ret.err.cause # ErrBackend ) =>
     /\ ret.err = ErrNil
     /\ \A r \in replica : r.Topics = <<"*">> => r \in Range(ret.rows)

\* GetByTopic("g") returned a row whose Topics is "*".
C8_Witness ==
  /\ ret.op = "GetByTopic"
  /\ ret.topic = <<"g">>
  /\ \E r \in Range(ret.rows) : r.Topics = <<"*">>

\* C9: GetByTopic(topic) with a trimmed topic that is empty or "*" fails
\* with the invalid-topic error and returns no rows; as no query is issued,
\* no backend failure can show instead.
C9_InvalidTopicRejected ==
  (ret.op = "GetByTopic" /\ TrimSpace(ret.topic) \in {<<>>, <<"*">>}) =>
     /\ ret.err = Err("", "invalid topic")
     /\ ret.rows = <<>>

\* GetByTopic(" * ") was rejected on a table that holds a wildcard row.
C9_Witness ==
  /\ ret.op = "GetByTopic"
  /\ ret.topic = <<" ", "*", " ">>
  /\ ret.err.cause = "invalid topic"
  /\ \E r \in replica : r.Topics = <<"*">>

\* C10, as stated: a Get on an Id whose row was last written by a
\* successful UpdateTopics(id, new) returns a record whose Topics is new.
C10_GetAfterUpdateTopicsReturnsNew ==
  [][GetAfter("UpdateTopics") =>
       /\ ret'.err = ErrNil
       /\ \A w \in last[ret'.id].arg : ret'.rows[1].Topics = w.Topics]_vars

\* C10, amended: after a successful UpdateTopics(id, new) on a stored
\* record, with no other write to that Id in between, the write primary
\* holds the record with Topics = new, and a Get on the Id returns Topics =
\* new once the read replica holds that row; until then Get may return the
\* previous value.
C10_UpdateTopicsReplaces ==
  [][/\ \A id \in Ids :
          (last'[id].op = "UpdateTopics" /\ last'[id] # last[id]) =>
             /\ ret'.op = "UpdateTopics"
             /\ ret'.err = ErrNil
             /\ ret'.rows[1].Topics = ret'.topic
             /\ \A w \in last'[id].arg : w.Topics = ret'.topic
     /\ \A id \in Ids :
          last'[id].op = "UpdateTopics" =>
             /\ Stored(master', id)
             /\ \A r \in RowsOf(master', id), w \in last'[id].arg :
                   r.Topics = w.Topics
     /\ (GetAfter("UpdateTopics") /\ ReplicaCurrent(ret'.id)) =>
           /\ ret'.err = ErrNil
           /\ \A w \in last[ret'.id].arg : ret'.rows[1].Topics = w.Topics]_vars

\* A Get returned the Topics that an UpdateTopics wrote over a different
\* saved value.
C10_Witness ==
  /\ ret.op = "Get"
  /\ ret.err = ErrNil
  /\ last[ret.id].op = "UpdateTopics"
  /\ ret.rows[1].Topics = <<"a", " ", "b">>
  /\ ret.rows[1].UpdateAt > ret.rows[1].CreateAt

\* C11: SetLastPingAt(id) on an Id that no stored record has returns no
\* error and leaves every stored record as it was: no row is added, no
\* other row's LastPingAt is written.
C11_PingUnknownIdChangesNothing ==
  [][\A id \in Ids :
       (SetLastPingAt(id, FALSE) /\ ~Stored(master, id)) =>
          /\ ret'.err = ErrNil
          /\ master' = master]_vars

\* SetLastPingAt returned no error on an unknown Id while another record,
\* saved at an earlier clock reading, is stored.
C11_Witness ==
  /\ ret.op = "SetLastPingAt"
  /\ ret.err = ErrNil
  /\ ~Stored(master, ret.id)
  /\ \E r \in master : r.LastPingAt # now

\* C12: SetLastPingAt(id) on a stored record sets the LastPingAt of exactly
\* that record to the clock reading of the call; a second call, made right
\* after a first one at a later clock reading, leaves LastPingAt strictly
\* greater than the first left it.
C12_PingSetsClockReading ==
  [][\A id \in Ids :
       (SetLastPingAt(id, FALSE) /\ Stored(master, id)) =>
          /\ ret'.err = ErrNil
          /\ master' = {IF r.Id = id THEN [r EXCEPT !.LastPingAt = now] ELSE r :
                          r \in master}
          /\ \A old \in RowsOf(master, id), new \in RowsOf(master', id) :
                (last[id].op = "SetLastPingAt" /\ old.LastPingAt < now) =>
                   new.LastPingAt > old.LastPingAt]_vars

\* A second SetLastPingAt at a later clock reading: the primary holds the
\* second reading, the replica still the first.
C12_Witness ==
  /\ ret.op = "SetLastPingAt"
  /\ ret.err = ErrNil
  /\ \E new \in RowsOf(master, ret.id), old \in RowsOf(replica, ret.id) :
       /\ new.LastPingAt = now
       /\ old.LastPingAt > 0
       /\ old.LastPingAt < new.LastPingAt

\* The record passed to Save misses a required field or exceeds a column
\* size of section 3 (ClusterName required, Topics at most 512 characters).
ViolatesInvariants(r) == r.ClusterName = "" \/ Len(r.Topics) > 512

\* C13: Save of a record that violates a required-field or length
\* invariant fails with the validation error, whatever the backend does,
\* and the stored records are the same after the call as before it: a step
\* that completes a Save either returns the validation error and writes
\* nothing, or is not the Save of any such record.
C13_InvalidSaveWritesNothing ==
  [][ret'.op = "Save" =>
       \/ /\ ret'.err = Err("", "RemoteCluster.IsValid")
          /\ ret'.rows = <<>>
          /\ master' = master
          /\ usedIds' = usedIds
       \/ \A r \in SaveInputs :
            ViolatesInvariants(r) =>
              \A newId \in (IF r.Id = "" THEN Ids ELSE {""}), fail \in BOOLEAN :
                 ~Save(r, newId, fail)]_vars

\* A Save was refused by validation while a record is stored.
C13_Witness ==
  /\ ret.op = "Save"
  /\ ret.err.cause = "RemoteCluster.IsValid"
  /\ master # {}

\* C14: at most one stored record has any given Id; a Save whose Id is that
\* of a stored record fails and leaves the stored records unchanged; and an
\* Id that was stored and then removed by Delete is never again the Id of a
\* stored record.
C14_IdUniqueNeverReused ==
  [][/\ \A a \in master', b \in master' : a.Id = b.Id => a = b
     /\ (ret'.op = "Save" /\ Stored(master, ret'.id)) =>
           /\ ret'.err # ErrNil
           /\ ret'.err.cause # "RemoteCluster.IsValid" =>
                 ret'.err.wrap = "failed to save RemoteCluster"
           /\ master' = master
     /\ \A id \in Ids :
           (~Stored(master, id) /\ Stored(master', id)) => id \notin usedIds]_vars

\* C15: the write of an UpdateTopics call on a stored record leaves exactly
\* the Topics that this call asked for, whatever another UpdateTopics call
\* on the same id, still running or already completed, read or wrote: the
\* call that writes last decides the stored value, which is one of the
\* requested values and never a merge of them.
C15_LastWriterWins ==
  [][\A p \in Procs :
       (UpdateTopicsUpdate(p, FALSE) /\ Stored(master, ut[p].id)) =>
          /\ ret'.err = ErrNil
          /\ \A r \in RowsOf(master', ut[p].id) : r.Topics = ut[p].topics
          /\ \A q \in Procs \ {p} :
               (ut[q].pc = "update" /\ ut[q].id = ut[p].id) => ut'[q] = ut[q]]_vars

\* One of two overlapping UpdateTopics calls on the same id has written its
\* Topics; the other, which asked for a different value and read the record
\* before that write, has yet to write.
C15_Witness ==
  /\ ret.op = "UpdateTopics"
  /\ ret.err = ErrNil
  /\ \E r \in RowsOf(master, ret.id) : r.Topics = ret.topic /\ r.UpdateAt > 0
  /\ \E q \in Procs :
       /\ ut[q].pc = "update"
       /\ ut[q].id = ret.id
       /\ ut[q].topics # ret.topic
       /\ \E rc \in ut[q].rc : rc.UpdateAt = 0

\* C16: the write of UpdateTopics changes only the Topics and the update
\* stamp of the record with that id: its Id, ClusterName, Hostname, Token,
\* CreateAt and LastPingAt, and every other stored record, are the same
\* after the write as immediately before it.
C16_UpdateTopicsChangesOnlyTopics ==
  [][\A p \in Procs :
       UpdateTopicsUpdate(p, FALSE) =>
          /\ {r \in master' : r.Id # ut[p].id} = {r \in master : r.Id # ut[p].id}
          /\ Stored(master', ut[p].id) = Stored(master, ut[p].id)
          /\ \A old \in RowsOf(master, ut[p].id), new \in RowsOf(master', ut[p].id) :
               new = [old EXCEPT !.Topics = new.Topics, !.UpdateAt = new.UpdateAt]]_vars

\* C18: the stored LastPingAt of a record never decreases while the record
\* stays stored: no step, and in particular no write of an UpdateTopics that
\* read the record before a SetLastPingAt completed, leaves a smaller value.
C18_LastPingAtNeverDecreases ==
  [][\A old \in master, new \in master' :
       old.Id = new.Id => new.LastPingAt >= old.LastPingAt]_vars

\* C17: on the same rows and at the same clock reading,
\* GetAllNotInChannel(channelId, includeOffline) returns exactly the records
\* of GetAll(includeOffline) whose Id is not associated with channelId, each
\* once, in ascending ClusterName order.
C17_NotInChannelIsGetAllMinusAssociated ==
  (ret.op = "GetAllNotInChannel" /\ ret.err = ErrNil) =>
     LET expected == {r \in GetAllRows(replica, ret.incl, now) :
                        <<ret.channel, r.Id>> \notin sharedChannelRemotes}
     IN /\ Range(ret.rows) = expected
        /\ Len(ret.rows) = Cardinality(expected)
        /\ \A i \in DOMAIN ret.rows, j \in DOMAIN ret.rows :
             i < j => NameRank(ret.rows[i].ClusterName)
                        <= NameRank(ret.rows[j].ClusterName)

\* A liveness-filtered GetAllNotInChannel returned two records with
\* different names while a record is associated with the other channel.
C17_Witness ==
  /\ ret.op = "GetAllNotInChannel"
  /\ ret.err = ErrNil
  /\ ~ret.incl
  /\ Len(ret.rows) = 2
  /\ ret.rows[1].ClusterName # ret.rows[2].ClusterName
  /\ \E x \in sharedChannelRemotes : x[1] # ret.channel

\* C19: whenever the write of UpdateTopics(id, topics) returns a record
\* without error, a record with that id was stored at the moment of the
\* write and is stored with the new Topics after it; and a write whose
\* record was deleted between the read and the write does not store it.
C19_UpdateTopicsSucceedsOnlyOnStored ==
  [][\A p \in Procs :
       UpdateTopicsUpdate(p, FALSE) =>
          /\ ret'.err = ErrNil =>
               /\ Stored(master, ut[p].id)
               /\ \E r \in RowsOf(master', ut[p].id) : r.Topics = ut[p].topics
          /\ ~Stored(master, ut[p].id) => ~Stored(master', ut[p].id)]_vars

====
